---- MODULE Spec2Model ----
(***************************************************************************)
(* Model of code_review.py: the LLM review client (_get_ai_code_review,    *)
(* _generate_pr_url), the issue post-processor (review_code,               *)
(* _deduplicate_issues) and the parallel review coordinator                *)
(* (review_files_parallel with its nested review_file).                    *)
(*                                                                         *)
(* Python values are represented as follows.                               *)
(*   dict            a function from key strings to values; {} is <<>>     *)
(*   list            a sequence                                            *)
(*   None            the string NoneVal                                    *)
(*   a call outcome  Ret(v) for a normal return, Exc(type, text) for an    *)
(*                   exception leaving the call                            *)
(*   a JSON value    a record tagged by t (what json.loads produced)       *)
(***************************************************************************)
EXTENDS Integers, Sequences, FiniteSets, TLC

(***************************************************************************)
(* Bounds of the model.                                                    *)
(***************************************************************************)
MaxFiles == 2

MaxWorkers == 2

MaxStartLine == 2

\* Longest list of issues a response carries when the post-processor is
\* called on its own, and the largest line the model reports there.
MaxIssues == 3

MaxLine == 2

\* Longest text given to split_code_into_chunks, and the largest
\* max_chunk_size.
MaxTextLen == 6

MaxChunkSize == 3

(***************************************************************************)
(* Issue model (class IssueType).                                          *)
(***************************************************************************)
CRITICAL == "Critical Issue"

IMPROVEMENT == "Improvement Needed"

BEST_PRACTICE == "Best Practice"

SECURITY == "Security Concern"

PERFORMANCE == "Performance Impact"

\* The string values of IssueType.__dict__ that do not start with an
\* underscore: the five categories and the class docstring (__module__ is
\* '__main__' when the file is run as the program).
IssueTypeDictStrings ==
    {CRITICAL, IMPROVEMENT, BEST_PRACTICE, SECURITY, PERFORMANCE,
     "Enumeration of issue types for code review."}

NoneVal == "<None>"

Ret(v) == [raised |-> FALSE, val |-> v]

Exc(type, text) == [raised |-> TRUE, exc |-> type, text |-> text]

\* A Python object as _get_ai_code_review can return it: a list, or the
\* empty dict / empty str taken unchanged from the parsed response.
PyList(items) == [t |-> "list", items |-> items]

PyOther(t) == [t |-> t, items |-> <<>>]

(***************************************************************************)
(* String helpers (str.lower, the `in` test on strings, str.split).        *)
(***************************************************************************)
\* Position of the first occurrence of sub in s, 0 when there is none.
Find(s, sub) ==
    LET hits == {i \in 1..(Len(s) - Len(sub) + 1) :
                     SubSeq(s, i, i + Len(sub) - 1) = sub}
    IN  IF hits = {} THEN 0 ELSE CHOOSE i \in hits : \A j \in hits : i <= j

Contains(s, sub) == Find(s, sub) > 0

\* s.startswith(prefix)
StartsWith(s, prefix) ==
    Len(s) >= Len(prefix) /\ SubSeq(s, 1, Len(prefix)) = prefix

LowerChar(c) ==
    CASE c = "A" -> "a" [] c = "B" -> "b" [] c = "C" -> "c" [] c = "D" -> "d"
      [] c = "E" -> "e" [] c = "F" -> "f" [] c = "G" -> "g" [] c = "H" -> "h"
      [] c = "I" -> "i" [] c = "J" -> "j" [] c = "K" -> "k" [] c = "L" -> "l"
      [] c = "M" -> "m" [] c = "N" -> "n" [] c = "O" -> "o" [] c = "P" -> "p"
      [] c = "Q" -> "q" [] c = "R" -> "r" [] c = "S" -> "s" [] c = "T" -> "t"
      [] c = "U" -> "u" [] c = "V" -> "v" [] c = "W" -> "w" [] c = "X" -> "x"
      [] c = "Y" -> "y" [] c = "Z" -> "z"
      [] OTHER -> c

RECURSIVE Lower(_)
Lower(s) ==
    IF Len(s) = 0 THEN ""
    ELSE LowerChar(SubSeq(s, 1, 1)) \o Lower(SubSeq(s, 2, Len(s)))

\* s.split(sep): the pieces of s between the occurrences of sep.
RECURSIVE Split(_, _)
Split(s, sep) ==
    LET p == Find(s, sep)
    IN  IF p = 0 THEN <<s>>
        ELSE <<SubSeq(s, 1, p - 1)>> \o Split(SubSeq(s, p + Len(sep), Len(s)), sep)

(***************************************************************************)
(* Python dict helpers.                                                    *)
(***************************************************************************)
EmptyDict == <<>>

HasKey(d, k) == k \in DOMAIN d

\* d[k] = v on a dict: the key is added or its value replaced.
SetKey(d, k, v) == (k :> v) @@ d

\* The truth value of a dict: empty is false.
DictTrue(d) == DOMAIN d # {}

\* The truth value of an optional string: None and '' are false.
StrTrue(s) == s # NoneVal /\ s # ""

(***************************************************************************)
(* LLM review client.                                                      *)
(***************************************************************************)
\* CodeReviewer._generate_pr_url
_generate_pr_url(commit_info) ==
    LET pr_number == IF HasKey(commit_info, "pr_number")
                     THEN commit_info.pr_number ELSE NoneVal
        repo_url  == IF HasKey(commit_info, "repo_url")
                     THEN commit_info.repo_url ELSE ""
    IN  IF ~StrTrue(pr_number) THEN Ret(NoneVal)
        ELSE IF repo_url = NoneVal
        THEN Exc("AttributeError", "'NoneType' object has no attribute 'lower'")
        ELSE IF Contains(Lower(repo_url), "github.com")
        THEN LET afterHost == Split(repo_url, "github.com/")
                 repo_parts == Split(afterHost[Len(afterHost)], ".git")[1]
             IN  Ret("https://github.com/" \o repo_parts \o "/pull/" \o pr_number)
        ELSE IF Contains(Lower(repo_url), "dev.azure.com")
        THEN LET parts == Split(repo_url, "/")
             IN  IF Len(parts) < 5
                 THEN Exc("IndexError", "list index out of range")
                 ELSE Ret("https://dev.azure.com/" \o parts[4] \o "/" \o parts[5]
                          \o "/_git/pullrequest/" \o pr_number)
        ELSE Ret(NoneVal)

\* The Python type json.loads gives a JSON value of tag t.
PyTypeName(t) ==
    IF t = "object" THEN "dict"
    ELSE IF t = "null" THEN "NoneType"
    ELSE t

NoGet(t) ==
    Exc("AttributeError", "'" \o PyTypeName(t) \o "' object has no attribute 'get'")

\* The shift written without the - 1: a chunk starting at line 1 would move
\* every issue down by one line.
ShiftLineFromZero(entry, start_line) ==
    IF entry.t # "object" THEN NoGet(entry.t)
    ELSE IF ~HasKey(entry.d, "line")
    THEN Ret(SetKey(entry.d, "line", 1 + start_line))
    ELSE IF entry.d.line.t = "int"
    THEN Ret(SetKey(entry.d, "line", entry.d.line.v + start_line))
    ELSE Exc("TypeError", "unsupported operand type(s) for +")

\* One pass of the loop body of _get_ai_code_review over a parsed entry:
\* the line shift, then the commit info, then the PR link.
ShiftLine(entry, start_line) ==
    IF entry.t # "object" THEN NoGet(entry.t)
    ELSE LET line == IF HasKey(entry.d, "line") THEN entry.d.line
                     ELSE [t |-> "int", v |-> 1]
         IN  IF line.t = "int"
             THEN Ret(SetKey(entry.d, "line", line.v + start_line - 1))
             ELSE IF line.t = "str"
             THEN Exc("TypeError", "can only concatenate str (not \"int\") to str")
             ELSE Exc("TypeError", "unsupported operand type(s) for +: 'NoneType' and 'int'")

\* issue['pr_info'] = {'number': .., 'url': ..} with the outcome of
\* _generate_pr_url.
AttachPrInfo(issue, pr_number, url) ==
    IF url.raised THEN url
    ELSE Ret(SetKey(issue, "pr_info", [number |-> pr_number, url |-> url.val]))

AttachCommit(issue, commit_info) ==
    IF ~DictTrue(commit_info) THEN Ret(issue)
    ELSE IF ~StrTrue(commit_info.pr_number)
    THEN Ret(SetKey(issue, "commit_info", commit_info))
    ELSE AttachPrInfo(SetKey(issue, "commit_info", commit_info),
                      commit_info.pr_number, _generate_pr_url(commit_info))

AfterShift(shifted, commit_info) ==
    IF shifted.raised THEN shifted ELSE AttachCommit(shifted.val, commit_info)

ProcessEntry(entry, start_line, commit_info) ==
    AfterShift(ShiftLine(entry, start_line), commit_info)

\* A processed entry in front of the processed rest, or the first exception.
ConsOutcome(first, rest) ==
    IF first.raised THEN first
    ELSE IF rest.raised THEN rest
    ELSE Ret(<<first.val>> \o rest.val)

\* The for loop of _get_ai_code_review: stops at the first exception.
RECURSIVE ProcessEntries(_, _, _)
ProcessEntries(entries, start_line, commit_info) ==
    IF entries = <<>> THEN Ret(<<>>)
    ELSE ConsOutcome(ProcessEntry(Head(entries), start_line, commit_info),
                     ProcessEntries(Tail(entries), start_line, commit_info))

AsPyList(done) == IF done.raised THEN done ELSE Ret(PyList(done.val))

\* json.loads(content).get('issues', []) and the loop over it.
ParseIssues(response, start_line, commit_info) ==
    LET j == response.json
    IN  IF j.t = "NotJSON"
        THEN Exc("JSONDecodeError", "Expecting value: line 1 column 1 (char 0)")
        ELSE IF j.t = "NoContent"
        THEN Exc("TypeError", "the JSON object must be str, bytes or bytearray, not NoneType")
        ELSE IF j.t # "object" THEN NoGet(j.t)
        ELSE IF ~HasKey(j.d, "issues") THEN Ret(PyList(<<>>))
        ELSE LET issues == j.d.issues
             IN  IF issues.t = "list"
                 THEN AsPyList(ProcessEntries(issues.items, start_line, commit_info))
                 ELSE IF issues.t \in {"str", "object"}
                 THEN IF issues.n = 0 THEN Ret(PyOther(issues.t)) ELSE NoGet("str")
                 ELSE Exc("TypeError",
                          "'" \o PyTypeName(issues.t) \o "' object is not iterable")

\* The issue returned when the response is not JSON (lines 331-343).
ParseFallback(code, start_line, commit_info, response) ==
    [type |-> BEST_PRACTICE,
     message |-> "General Review",
     line |-> start_line,
     code |-> "Full file",
     original_code_content |-> code,
     suggestion |-> [text |-> response.content, code |-> NoneVal],
     commit_info |-> IF DictTrue(commit_info) THEN commit_info ELSE EmptyDict]

\* The issue returned when anything else raised (lines 345-357).
ErrorFallback(start_line, commit_info, e) ==
    [type |-> CRITICAL,
     message |-> "AI Review Error: " \o e.text,
     line |-> start_line,
     code |-> "N/A",
     suggestion |-> [text |-> "Manual review recommended", code |-> NoneVal],
     commit_info |-> IF DictTrue(commit_info) THEN commit_info ELSE EmptyDict]

\* The exception classes the inner handler (line 331) catches.
InnerCaught(e) == e.exc = "JSONDecodeError"

\* A handler written for the parsing errors only: a failed request would
\* leave the call.
OuterCaughtParsingOnly(e) == e.exc \in {"TypeError", "AttributeError", "IndexError"}

\* The exception classes the outer handler (line 345) catches.
OuterCaught(e) == TRUE

\* The two handlers (lines 331 and 345) applied to the outcome of the try
\* blocks.
Handlers(outcome, code, start_line, commit_info, request) ==
    IF ~outcome.raised THEN outcome
    ELSE IF ~request.raised /\ InnerCaught(outcome)
    THEN Ret(PyList(<<ParseFallback(code, start_line, commit_info, request.val)>>))
    ELSE IF OuterCaught(outcome)
    THEN Ret(PyList(<<ErrorFallback(start_line, commit_info, outcome)>>))
    ELSE outcome

\* CodeReviewer._get_ai_code_review; request is the outcome of
\* self.client.chat.completions.create: Ret(response) or Exc(..).
_get_ai_code_review(code, start_line, commit_info, request) ==
    Handlers(IF request.raised THEN request
             ELSE ParseIssues(request.val, start_line, commit_info),
             code, start_line, commit_info, request)

(***************************************************************************)
(* Prompt builder: CodeReviewer.split_code_into_chunks.                    *)
(***************************************************************************)
\* sep.join(lines)
RECURSIVE Join(_, _)
Join(lines, sep) ==
    IF lines = <<>> THEN ""
    ELSE IF Len(lines) = 1 THEN lines[1]
    ELSE lines[1] \o sep \o Join(Tail(lines), sep)

\* The size test alone, without `and current_chunk`: a first line longer
\* than max_chunk_size would close an empty chunk.
ChunkFullSizeOnly(current_chunk, current_size, line_size, max_chunk_size) ==
    current_size + line_size > max_chunk_size

\* The condition of line 271.
ChunkFull(current_chunk, current_size, line_size, max_chunk_size) ==
    current_size + line_size > max_chunk_size /\ current_chunk # <<>>

\* The loop of lines 269-277 and the closing of the last chunk (279-280);
\* a chunk is the tuple (text, start_line).
RECURSIVE ChunkLoop(_, _, _, _, _, _)
ChunkLoop(lines, max_chunk_size, chunks, current_chunk, current_size, start_line) ==
    IF lines = <<>>
    THEN IF current_chunk # <<>>
         THEN Append(chunks, <<Join(current_chunk, "\n"), start_line>>)
         ELSE chunks
    ELSE IF ChunkFull(current_chunk, current_size, Len(Head(lines)), max_chunk_size)
    THEN ChunkLoop(Tail(lines), max_chunk_size,
                   Append(chunks, <<Join(current_chunk, "\n"), start_line>>),
                   <<Head(lines)>>, Len(Head(lines)),
                   start_line + Len(current_chunk))
    ELSE ChunkLoop(Tail(lines), max_chunk_size, chunks,
                   Append(current_chunk, Head(lines)),
                   current_size + Len(Head(lines)), start_line)

split_code_into_chunks(code, max_chunk_size) ==
    ChunkLoop(Split(code, "\n"), max_chunk_size, <<>>, <<>>, 0, 1)

(***************************************************************************)
(* Issue post-processor.                                                   *)
(***************************************************************************)
\* Length of the message prefix used in the deduplication key.
DedupPrefixLen == 100

Whitespace == {" ", "\n", "\t", "\r"}

\* not code_content.strip()
Blank(code) == \A i \in 1..Len(code) : SubSeq(code, i, i) \in Whitespace

\* A key built on the first 10 characters of the message.
MessagePrefixTen(issue) ==
    Ret(SubSeq(issue.message, 1, IF Len(issue.message) < 10
                                 THEN Len(issue.message) ELSE 10))

\* A key built on the whole message.
MessageWhole(issue) == Ret(issue.message)

\* issue.get('message', '')[:100]; a message that is None cannot be sliced.
MessagePrefix(issue) ==
    LET message == IF HasKey(issue, "message") THEN issue.message ELSE ""
    IN  IF message = NoneVal
        THEN Exc("TypeError", "'NoneType' object is not subscriptable")
        ELSE Ret(SubSeq(message, 1, IF Len(message) < DedupPrefixLen
                                    THEN Len(message) ELSE DedupPrefixLen))

\* issue.get('line'); the key of an issue without a line is None, written 0
\* here (parsed and fallback issues always carry a line >= 1).
LineOf(issue) == IF HasKey(issue, "line") THEN issue.line ELSE 0

\* A key that looks at the line only.
IssueKeyLineOnly(issue) == <<LineOf(issue), "">>

IssueKey(issue) == <<LineOf(issue), MessagePrefix(issue).val>>

\* CodeReviewer._deduplicate_issues: the loop, with what it has seen so far.
RECURSIVE DedupLoop(_, _, _)
DedupLoop(issues, seen_issues, unique_issues) ==
    IF issues = <<>> THEN Ret(unique_issues)
    ELSE IF MessagePrefix(Head(issues)).raised THEN MessagePrefix(Head(issues))
    ELSE IF IssueKey(Head(issues)) \in seen_issues
    THEN DedupLoop(Tail(issues), seen_issues, unique_issues)
    ELSE DedupLoop(Tail(issues), seen_issues \cup {IssueKey(Head(issues))},
                   Append(unique_issues, Head(issues)))

\* A post-processor that keeps every issue.
DedupNothing(issues) == Ret(issues)

_deduplicate_issues(issues) == DedupLoop(issues, {}, <<>>)

\* sorted(.., key=lambda x: x.get('line', 0)): a stable sort, here by
\* inserting each issue after the issues whose line is not greater.
\* An insertion that puts an issue in front of the issues of its own line.
RECURSIVE InsertBeforeEqual(_, _)
InsertBeforeEqual(sortedIssues, issue) ==
    IF sortedIssues = <<>> THEN <<issue>>
    ELSE IF LineOf(Head(sortedIssues)) < LineOf(issue)
    THEN <<Head(sortedIssues)>> \o InsertBeforeEqual(Tail(sortedIssues), issue)
    ELSE <<issue>> \o sortedIssues

RECURSIVE InsertByLine(_, _)
InsertByLine(sortedIssues, issue) ==
    IF sortedIssues = <<>> THEN <<issue>>
    ELSE IF LineOf(Head(sortedIssues)) <= LineOf(issue)
    THEN <<Head(sortedIssues)>> \o InsertByLine(Tail(sortedIssues), issue)
    ELSE <<issue>> \o sortedIssues

RECURSIVE SortedByLine(_)
SortedByLine(issues) ==
    IF issues = <<>> THEN <<>>
    ELSE InsertByLine(SortedByLine(SubSeq(issues, 1, Len(issues) - 1)),
                      issues[Len(issues)])

\* Lines 392-394: the file text is stored with every issue that has none.
WithOriginalCode(issues, code_content) ==
    [i \in 1..Len(issues) |->
        IF HasKey(issues[i], "original_code_content") THEN issues[i]
        ELSE SetKey(issues[i], "original_code_content", code_content)]

\* The issue review_code returns when its own body raised (lines 400-411).
ReviewCodeFallback(e) ==
    [type |-> CRITICAL,
     message |-> e.text,
     line |-> 1,
     code |-> "N/A",
     suggestion |-> [text |-> "Check code content", code |-> NoneVal],
     commit_info |-> EmptyDict]

\* Lines 391-398 on what the client returned; an exception on the way is
\* turned into the fallback issue by the handler at line 400.
SortUnique(unique_issues) ==
    IF unique_issues.raised THEN <<ReviewCodeFallback(unique_issues)>>
    ELSE SortedByLine(unique_issues.val)

PostProcess(reviewed, code_content) ==
    IF reviewed.raised THEN <<ReviewCodeFallback(reviewed)>>
    ELSE SortUnique(_deduplicate_issues(
             WithOriginalCode(reviewed.val.items, code_content)))

\* CodeReviewer.review_code; commit_info is what get_commit_info returned
\* for the file, request the outcome of the model request.
review_code(code_content, commit_info, request) ==
    IF Blank(code_content) THEN <<>>
    ELSE PostProcess(_get_ai_code_review(code_content, 1, commit_info, request),
                     code_content)

(***************************************************************************)
(* Parallel review coordinator: the per-file task review_file.             *)
(***************************************************************************)
\* The five counters of a result record (lines 461-467).
CountedTypes == {CRITICAL, IMPROVEMENT, BEST_PRACTICE, SECURITY, PERFORMANCE}

CountOfType(issues, type) ==
    Cardinality({i \in 1..Len(issues) : issues[i].type = type})

\* The file text as review_file reads it (lines 445-450): utf-8 first,
\* latin-1 when utf-8 decoding failed; any other failure leaves the block.
ReadFile(env) ==
    IF env.utf8.raised /\ env.utf8.exc = "UnicodeDecodeError"
    THEN env.latin1
    ELSE env.utf8

\* The record built at lines 455-468; i['type'] raises KeyError on an issue
\* without that key.
BuildResult(rel_path, commit_info, issues, code_content) ==
    IF \E i \in 1..Len(issues) : ~HasKey(issues[i], "type")
    THEN Exc("KeyError", "'type'")
    ELSE Ret([file |-> rel_path,
              commit_info |-> commit_info,
              issues |-> issues,
              original_code_content |-> code_content,
              issues_count |-> Len(issues),
              issues_by_type |-> [t \in CountedTypes |-> CountOfType(issues, t)]])

\* Lines 437-468 of review_file: everything before the progress update.
\* env is what the file system, the repository and the model service
\* answer for this file.
ReviewBody(file_info, env) ==
    IF ~HasKey(file_info, "relative_path")
    THEN Exc("KeyError", "'relative_path'")
    ELSE IF ~HasKey(file_info, "absolute_path")
    THEN Exc("KeyError", "'absolute_path'")
    ELSE IF ReadFile(env).raised THEN ReadFile(env)
    ELSE BuildResult(file_info.relative_path, env.commit_info,
                     review_code(ReadFile(env).val, env.commit_info, env.request),
                     ReadFile(env).val)

\* A client that sends the request again when it failed.
RequestsWithRetry(request) == IF request.raised THEN 2 ELSE 1

\* Calls of self.client.chat.completions.create in one call of
\* _get_ai_code_review: the one at line 309, outside any loop, whatever it
\* gives.
RequestsOfClient(request) == 1

\* review_file reaches review_code (453) when the descriptor has its keys
\* and the file was read; review_code returns before the client is called
\* when the content is blank (380-381) and calls it once otherwise (389).
RequestsOfBody(file_info, env) ==
    IF ~HasKey(file_info, "relative_path") \/ ~HasKey(file_info, "absolute_path")
    THEN 0
    ELSE IF ReadFile(env).raised THEN 0
    ELSE IF Blank(ReadFile(env).val) THEN 0
    ELSE RequestsOfClient(env.request)

\* A handler that itself fails for every file.
ErrorRecordRaising(file_info, e) == Exc("KeyError", "'relative_path'")

\* The handler at lines 477-484: the error record, or the KeyError of
\* file_info['relative_path'] raised inside the handler.
ErrorRecord(file_info, e) ==
    IF ~HasKey(file_info, "relative_path")
    THEN Exc("KeyError", "'relative_path'")
    ELSE Ret([file |-> file_info.relative_path,
              error |-> e.text,
              issues_count |-> 0,
              issues_by_type |-> [t \in IssueTypeDictStrings |-> 0]])

\* The handler at lines 495-496 prints file_info['relative_path'].
PrintErrorLine(file_info) ==
    IF ~HasKey(file_info, "relative_path")
    THEN Exc("KeyError", "'relative_path'")
    ELSE Ret("Error reviewing " \o file_info.relative_path)

(***************************************************************************)
(* Inputs: what the repository, the file system and the model service can  *)
(* answer.                                                                 *)
(***************************************************************************)
CommitOf(pr_number, repo_url) ==
    [committer_name |-> "dev",
     commit_hash |-> "abc123",
     commit_message |-> "Fix bug",
     commit_date |-> "2024-01-01T00:00:00",
     pr_number |-> pr_number,
     repo_url |-> repo_url]

GitHubUrl == "https://github.com/org/repo"

CommitInfos ==
    {EmptyDict,
     CommitOf(NoneVal, GitHubUrl),
     CommitOf("42", GitHubUrl),
     CommitOf("42", GitHubUrl \o ".git"),
     \* a GitHub Pages repository
     CommitOf("42", "https://github.com/org/org.github.io"),
     CommitOf("42", "https://dev.azure.com/org/project/_git/repo"),
     \* the legacy Azure DevOps style _format_repo_url accepts (line 87)
     CommitOf("42", "https://org.visualstudio.com/project/_git/repo"),
     \* a provider the program does not know
     CommitOf("42", "https://gitlab.com/org/repo"),
     CommitOf("42", "https://dev.azure.com/org"),
     CommitOf("42", NoneVal)}

JInt(n) == [t |-> "int", v |-> n]

JStr(n) == [t |-> "str", n |-> n]

JObject(d) == [t |-> "object", d |-> d]

JList(items) == [t |-> "list", items |-> items]

\* A well-formed entry of the issues array.
Entry(line, message, type) ==
    JObject([line |-> JInt(line), message |-> message, type |-> type,
             code |-> "x = 1",
             suggestion |-> [text |-> "Rename it", code |-> NoneVal]])

Response(content, json) == [content |-> content, json |-> json]

IssuesResponse(content, issues) ==
    Response(content, JObject([issues |-> issues]))

RespEmpty == IssuesResponse("{\"issues\": []}", JList(<<>>))

RespOne ==
    IssuesResponse("{\"issues\": [{\"line\": 2, ..}]}",
                   JList(<<Entry(2, "Unused variable x", IMPROVEMENT)>>))

RespTwo ==
    IssuesResponse("{\"issues\": [{\"line\": 3, ..}, {\"line\": 1, ..}]}",
                   JList(<<Entry(3, "Unused variable x", IMPROVEMENT),
                           Entry(1, "Hard-coded secret", SECURITY)>>))

RespNoType ==
    IssuesResponse("{\"issues\": [{\"line\": 2, \"message\": ..}]}",
                   JList(<<JObject([line |-> JInt(2),
                                    message |-> "Unused variable x"])>>))

\* What the model service can answer to one request.
Responses ==
    {RespEmpty, RespOne, RespTwo, RespNoType,
     \* text that is not JSON
     Response("Looks fine to me.", [t |-> "NotJSON"]),
     \* a message without content
     Response(NoneVal, [t |-> "NoContent"]),
     \* JSON that is not an object
     Response("[1]", JList(<<JInt(1)>>)),
     \* an object without issues
     Response("{}", JObject(EmptyDict)),
     \* issues is an empty object
     IssuesResponse("{\"issues\": {}}", [t |-> "object", n |-> 0]),
     \* issues is an empty string
     IssuesResponse("{\"issues\": \"\"}", JStr(0)),
     \* issues is a text
     IssuesResponse("{\"issues\": \"none\"}", JStr(4)),
     \* issues is null
     IssuesResponse("{\"issues\": null}", [t |-> "null"]),
     \* an entry without line
     IssuesResponse("{\"issues\": [{\"message\": .., \"type\": ..}]}",
                    JList(<<JObject([message |-> "Unused variable x",
                                     type |-> IMPROVEMENT])>>)),
     \* an entry whose line is a string
     IssuesResponse("{\"issues\": [{\"line\": \"2\", ..}]}",
                    JList(<<JObject([line |-> JStr(1),
                                     message |-> "Unused variable x",
                                     type |-> IMPROVEMENT])>>)),
     \* an entry that is a number
     IssuesResponse("{\"issues\": [1]}", JList(<<JInt(1)>>))}

RequestErrors ==
    {Exc("APITimeoutError", "Request timed out."),
     Exc("AuthenticationError", "Error code: 401"),
     Exc("RateLimitError", "Error code: 429")}

Requests == RequestErrors \cup {Ret(r) : r \in Responses}

SampleCode == "x = 1\ny = 2"

ClientInputs ==
    [code : {SampleCode}, start_line : 1..MaxStartLine,
     commit_info : CommitInfos, request : Requests]

\* Messages of issues: two that differ within their first 100 characters
\* (one a prefix of the other), and two longer than 100 characters that
\* agree on the first 100 and differ after them.
RECURSIVE Repeat(_, _)
Repeat(s, n) == IF n = 0 THEN "" ELSE s \o Repeat(s, n - 1)

MsgShort == "Unused variable x"

MsgLoop == "Unused variable x in loop"

MsgLongA == Repeat("Function too long. ", 6) \o "Split it."

MsgLongB == Repeat("Function too long. ", 6) \o "Inline it."

Messages == {MsgShort, MsgLoop, MsgLongA, MsgLongB}

\* The code snippet of the i-th issue of a response: tells the issues of
\* one response apart.
Snippets == <<"x = 1", "y = 2", "z = 3", "u = 4", "v = 5">>

\* What the model reports for one issue: its line and its message.
Reported == (1..MaxLine) \X Messages

\* Responses of up to MaxIssues issues, and responses ending in an issue
\* whose message is null.
ReportedLists ==
    UNION {[1..n -> Reported] : n \in 0..MaxIssues}
    \cup {<<q>> : q \in (1..MaxLine) \X {NoneVal}}
    \cup {<<r, q>> : r \in Reported, q \in (1..MaxLine) \X {NoneVal}}

\* The i-th entry of the issues array of a response.
EntryAt(i, reported) ==
    JObject([line |-> JInt(reported[1]), message |-> reported[2],
             type |-> IMPROVEMENT, code |-> Snippets[i],
             suggestion |-> [text |-> "Rename it", code |-> NoneVal]])

ResponseOf(reportedList) ==
    IssuesResponse("{\"issues\": [..]}",
                   JList([i \in 1..Len(reportedList) |-> EntryAt(i, reportedList[i])]))

\* The same issue as the review client hands it on (start_line 1, no
\* commit info).
IssueAt(i, reported) ==
    [line |-> reported[1], message |-> reported[2],
     type |-> IMPROVEMENT, code |-> Snippets[i],
     suggestion |-> [text |-> "Rename it", code |-> NoneVal]]

IssuesOf(reportedList) ==
    [i \in 1..Len(reportedList) |-> IssueAt(i, reportedList[i])]

\* Calls of _deduplicate_issues and review_code on their own.
DedupInputs ==
    {[issues |-> IssuesOf(l)] : l \in ReportedLists}

ReviewCodeInputs ==
    {[code_content |-> SampleCode, commit_info |-> EmptyDict,
      request |-> Ret(ResponseOf(l))] : l \in ReportedLists}
    \cup [code_content : {SampleCode}, commit_info : CommitInfos, request : Requests]
    \cup {[code_content |-> "  \n", commit_info |-> EmptyDict,
           request |-> Ret(RespOne)]}

\* Texts of up to MaxTextLen characters, newlines among them, and the
\* chunk sizes they are split with.
RECURSIVE TextsOfLength(_)
TextsOfLength(n) ==
    IF n = 0 THEN {""}
    ELSE {t \o c : t \in TextsOfLength(n - 1), c \in {"a", "b", "\n"}}

ChunkInputs ==
    [code : UNION {TextsOfLength(n) : n \in 0..MaxTextLen},
     max_chunk_size : 1..MaxChunkSize]

\* File descriptors as review_repository builds them (lines 601-609), and
\* a descriptor without the 'relative_path' key.
PathNames == <<"a.py", "b.py", "c.py", "d.py", "e.py", "f.py">>

GoodDescriptor(i) ==
    [relative_path |-> PathNames[i], absolute_path |-> "/tmp/repo/" \o PathNames[i]]

BareDescriptor(i) == [absolute_path |-> "/tmp/repo/" \o PathNames[i]]

\* The descriptor of a file of the directory blank/, whose files are empty
\* or hold white space only.
BlankDescriptor(i) ==
    [relative_path |-> "blank/" \o PathNames[i],
     absolute_path |-> "/tmp/repo/blank/" \o PathNames[i]]

ReadOk == [utf8 |-> Ret(SampleCode), latin1 |-> Ret(SampleCode)]

FileEnv(read, request) ==
    [utf8 |-> read.utf8, latin1 |-> read.latin1,
     commit_info |-> CommitOf("42", GitHubUrl), request |-> request]

\* What one file can meet during a run of the coordinator: a clean review,
\* a file that cannot be opened, a file that is not utf-8, a parsed issue
\* without a type, a failed model request.
FileEnvs ==
    {FileEnv(ReadOk, Ret(RespOne)),
     FileEnv([utf8 |-> Exc("FileNotFoundError", "[Errno 2] No such file or directory"),
              latin1 |-> Exc("FileNotFoundError", "[Errno 2] No such file or directory")],
             Ret(RespOne)),
     FileEnv([utf8 |-> Exc("UnicodeDecodeError", "'utf-8' codec can't decode byte"),
              latin1 |-> Ret(SampleCode)],
             Ret(RespEmpty)),
     FileEnv(ReadOk, Ret(RespNoType)),
     FileEnv(ReadOk, Exc("APITimeoutError", "Request timed out."))}

(***************************************************************************)
(* State.                                                                  *)
(***************************************************************************)
VARIABLES
    files_to_review,  \* the list of file descriptors given to the coordinator
    max_workers,      \* the max_workers argument
    mainpc,           \* where the calling thread is in review_files_parallel
    submitted,        \* number of descriptors handed to executor.submit
    pc,               \* where each file's task is
    env,              \* what each file's task met (set when the task ran)
    result,           \* the local `result` of each task
    future,           \* the outcome stored in each task's future
    progress_lock,    \* holder of progress_lock, 0 when free
    files_completed,  \* the shared counter
    loaded,           \* the value each task read for files_completed += 1
    printed,          \* the completed counts printed so far
    finished,         \* as_completed: futures done at the call, not yet yielded
    waiter,           \* as_completed: futures done after the call, in order
    collected,        \* futures as_completed has yielded
    review_results,   \* the list the coordinator returns
    finish_order,     \* history: the tasks in the order their futures were
                      \* set, with a 0 where as_completed was called
    requests,         \* history: the model requests each task has made
    cl_pc,            \* the client call: "idle", "call" or "ret"
    cl_args,          \* its arguments
    cl_ret,           \* its outcome
    pp_call,          \* the post-processor operation called on its own
    pp_pc,            \* that call: "idle", "call" or "ret"
    pp_args,          \* its arguments
    pp_ret,           \* its outcome
    run_pc,           \* where main / review_repository is
    settings,         \* the three environment settings at startup
    temp_dir,         \* git_handler.temp_dir
    dir_exists,       \* the file system: the temporary directory exists
    repo,             \* git_handler.repo
    code_files,       \* the list get_code_files returned
    reports           \* the report lines printed by the run

coordVars ==
    <<files_to_review, max_workers, mainpc, submitted, pc, env, result, future,
      progress_lock, files_completed, loaded, printed, finished, waiter,
      collected, review_results, finish_order, requests>>

clientVars == <<cl_pc, cl_args, cl_ret>>

postVars == <<pp_call, pp_pc, pp_args, pp_ret>>

runVars ==
    <<run_pc, settings, temp_dir, dir_exists, repo, code_files, reports>>

vars == <<coordVars, clientVars, postVars, runVars>>

Files == 1..Len(files_to_review)

total_files == Len(files_to_review)

\* Tasks a worker thread is running.
Executing ==
    {f \in Files :
        pc[f] \in {"running", "hung", "progress", "load", "store", "print", "return"}}

\* A pool of a single worker thread, whatever max_workers is.
PoolSizeOne(workers) == 1

\* A pool built without max_workers: the library's default size.
PoolSizeDefault(workers) == 32

\* ThreadPoolExecutor(max_workers=max_workers): the number of worker threads.
PoolSize(workers) == workers

\* The progress update done without taking the lock.
LockIgnored(holder) == TRUE

\* progress_lock can be taken when nobody holds it.
LockFree(holder) == holder = 0

(***************************************************************************)
(* The coordinator review_files_parallel.                                  *)
(***************************************************************************)
DescriptorLists ==
    UNION {[1..n -> {"good", "bare"}] : n \in 0..MaxFiles}

DescriptorsOf(kinds) ==
    [i \in 1..Len(kinds) |->
        IF kinds[i] = "good" THEN GoodDescriptor(i)
        ELSE IF kinds[i] = "blank" THEN BlankDescriptor(i)
        ELSE BareDescriptor(i)]

ClientIdle ==
    /\ cl_pc = "idle"
    /\ cl_args = EmptyDict
    /\ cl_ret = EmptyDict

PostIdle ==
    /\ pp_call = "none"
    /\ pp_pc = "idle"
    /\ pp_args = EmptyDict
    /\ pp_ret = EmptyDict

\* No run of main is going on: the operation is called on its own.
RunIdle ==
    /\ run_pc = "idle"
    /\ settings = EmptyDict
    /\ temp_dir = NoneVal
    /\ dir_exists = FALSE
    /\ repo = NoneVal
    /\ code_files = <<>>
    /\ reports = <<>>

\* Lines 428-432, for a list of descriptors and a max_workers.
CoordinatorStart(descriptors, workers) ==
    /\ files_to_review = descriptors
    /\ max_workers = workers
    /\ mainpc = "submit"
    /\ submitted = 0
    /\ pc = [f \in 1..Len(descriptors) |-> "new"]
    /\ env = [f \in 1..Len(descriptors) |-> EmptyDict]
    /\ result = [f \in 1..Len(descriptors) |-> EmptyDict]
    /\ future = [f \in 1..Len(descriptors) |-> EmptyDict]
    /\ progress_lock = 0
    /\ files_completed = 0
    /\ loaded = [f \in 1..Len(descriptors) |-> 0]
    /\ printed = <<>>
    /\ finished = {}
    /\ waiter = <<>>
    /\ collected = {}
    /\ review_results = <<>>
    /\ finish_order = <<>>
    /\ requests = [f \in 1..Len(descriptors) |-> 0]

Init ==
    /\ \E kinds \in DescriptorLists, workers \in 1..MaxWorkers :
          CoordinatorStart(DescriptorsOf(kinds), workers)
    /\ ClientIdle
    /\ PostIdle
    /\ RunIdle

\* executor.submit(review_file, file_info) for the next descriptor (line 487).
Submit ==
    /\ mainpc = "submit"
    /\ submitted < total_files
    /\ submitted' = submitted + 1
    /\ pc' = [pc EXCEPT ![submitted + 1] = "queued"]
    /\ UNCHANGED <<files_to_review, max_workers, mainpc, env, result, future,
                   progress_lock, files_completed, loaded, printed, finished,
                   waiter, collected, review_results, finish_order, requests,
                   clientVars, postVars, runVars>>

\* A worker thread of the pool takes the oldest queued task.
Start(f) ==
    /\ pc[f] = "queued"
    /\ \A g \in Files : g < f => pc[g] # "queued"
    /\ Cardinality(Executing) < PoolSize(max_workers)
    /\ pc' = [pc EXCEPT ![f] = "running"]
    /\ UNCHANGED <<files_to_review, max_workers, mainpc, submitted, env, result,
                   future, progress_lock, files_completed, loaded, printed,
                   finished, waiter, collected, review_results, finish_order, requests,
                   clientVars, postVars, runVars>>

\* The future of task f gets its outcome; as_completed hears of it when it
\* is already waiting.
Complete(f, outcome) ==
    /\ future' = [future EXCEPT ![f] = outcome]
    /\ pc' = [pc EXCEPT ![f] = "done"]
    /\ waiter' = IF mainpc = "collect" THEN Append(waiter, f) ELSE waiter
    /\ finish_order' = Append(finish_order, f)

\* What the file of descriptor file_info can meet: a task that fails on the
\* descriptor itself (line 438) meets nothing.
EnvsFor(file_info) ==
    IF ~HasKey(file_info, "relative_path") THEN {EmptyDict}
    ELSE IF StartsWith(file_info.relative_path, "blank/")
    THEN {FileEnv([utf8 |-> Ret(text), latin1 |-> Ret(text)], Ret(RespOne)) :
              text \in {"", "  \n"}}
    ELSE FileEnvs

\* A body that raised ends the task in the handler; otherwise the task
\* goes on to the progress update with its result.
AfterBody(f, body) ==
    IF body.raised
    THEN /\ Complete(f, ErrorRecord(files_to_review[f], body))
         /\ UNCHANGED result
    ELSE /\ result' = [result EXCEPT ![f] = body.val]
         /\ pc' = [pc EXCEPT ![f] = "progress"]
         /\ UNCHANGED <<future, waiter, finish_order>>

\* Lines 437-468 of review_file and, when they raise, the handler at 477-484.
Review(f) ==
    /\ pc[f] = "running"
    /\ \E e \in EnvsFor(files_to_review[f]) :
          /\ env' = [env EXCEPT ![f] = e]
          /\ requests' = [requests EXCEPT
                              ![f] = RequestsOfBody(files_to_review[f], e)]
          /\ AfterBody(f, ReviewBody(files_to_review[f], e))
    /\ UNCHANGED <<files_to_review, max_workers, mainpc, submitted,
                   progress_lock, files_completed, loaded, printed, finished,
                   collected, review_results, clientVars, postVars, runVars>>

\* with progress_lock: (line 470)
Acquire(f) ==
    /\ pc[f] = "progress"
    /\ LockFree(progress_lock)
    /\ progress_lock' = f
    /\ pc' = [pc EXCEPT ![f] = "load"]
    /\ UNCHANGED <<files_to_review, max_workers, mainpc, submitted, env, result,
                   future, files_completed, loaded, printed, finished, waiter,
                   collected, review_results, finish_order, requests,
                   clientVars, postVars, runVars>>

\* files_completed += 1 (line 472): the read ...
Load(f) ==
    /\ pc[f] = "load"
    /\ loaded' = [loaded EXCEPT ![f] = files_completed]
    /\ pc' = [pc EXCEPT ![f] = "store"]
    /\ UNCHANGED <<files_to_review, max_workers, mainpc, submitted, env, result,
                   future, progress_lock, files_completed, printed, finished,
                   waiter, collected, review_results, finish_order, requests,
                   clientVars, postVars, runVars>>

\* ... and the write.
Store(f) ==
    /\ pc[f] = "store"
    /\ files_completed' = loaded[f] + 1
    /\ pc' = [pc EXCEPT ![f] = "print"]
    /\ UNCHANGED <<files_to_review, max_workers, mainpc, submitted, env, result,
                   future, progress_lock, loaded, printed, finished, waiter,
                   collected, review_results, finish_order, requests,
                   clientVars, postVars, runVars>>

\* The progress line (line 473) and the end of the with block.
PrintProgress(f) ==
    /\ pc[f] = "print"
    /\ printed' = Append(printed, files_completed)
    /\ progress_lock' = 0
    /\ pc' = [pc EXCEPT ![f] = "return"]
    /\ UNCHANGED <<files_to_review, max_workers, mainpc, submitted, env, result,
                   future, files_completed, loaded, finished, waiter, collected,
                   review_results, finish_order, requests,
                   clientVars, postVars, runVars>>

\* return result (line 475)
Return(f) ==
    /\ pc[f] = "return"
    /\ Complete(f, Ret(result[f]))
    /\ UNCHANGED <<files_to_review, max_workers, mainpc, submitted, env, result,
                   progress_lock, files_completed, loaded, printed, finished,
                   collected, review_results, requests,
                   clientVars, postVars, runVars>>

\* concurrent.futures.as_completed(future_to_file) is called (line 490):
\* the futures already done are set aside, in no particular order.
AsCompleted ==
    /\ mainpc = "submit"
    /\ submitted = total_files
    /\ mainpc' = "collect"
    /\ finished' = {f \in Files : pc[f] = "done"}
    /\ finish_order' = Append(finish_order, 0)
    /\ UNCHANGED <<files_to_review, max_workers, submitted, pc, env, result,
                   future, progress_lock, files_completed, loaded, printed,
                   waiter, collected, review_results, requests,
                   clientVars, postVars, runVars>>

\* A collector that puts each record in front of the earlier ones.
PrependResult(results, record) == <<record>> \o results

\* A collector that keeps only the records of the files that were reviewed.
AppendUnlessError(results, record) ==
    IF HasKey(record, "error") THEN results ELSE Append(results, record)

\* review_results.append(result) (line 494)
AppendResult(results, record) == Append(results, record)

\* One round of the loop at lines 490-496 for the future as_completed yields.
Collect(f) ==
    /\ mainpc = "collect"
    /\ \/ f \in finished
       \/ finished = {} /\ waiter # <<>> /\ f = Head(waiter)
    /\ finished' = finished \ {f}
    /\ waiter' = IF f \in finished THEN waiter ELSE Tail(waiter)
    /\ collected' = collected \cup {f}
    /\ IF ~future[f].raised
       THEN /\ review_results' = AppendResult(review_results, future[f].val)
            /\ UNCHANGED mainpc
       ELSE /\ mainpc' = IF PrintErrorLine(files_to_review[f]).raised
                         THEN "unwind" ELSE "collect"
            /\ UNCHANGED review_results
    /\ UNCHANGED <<files_to_review, max_workers, submitted, pc, env, result,
                   future, progress_lock, files_completed, loaded, printed,
                   finish_order, requests,
                   clientVars, postVars, runVars>>

\* Every future was yielded: the with block ends and the list is returned
\* (lines 498-499).
ReturnResults ==
    /\ mainpc = "collect"
    /\ collected = Files
    /\ mainpc' = "returned"
    /\ UNCHANGED <<files_to_review, max_workers, submitted, pc, env, result,
                   future, progress_lock, files_completed, loaded, printed,
                   finished, waiter, collected, review_results, finish_order, requests,
                   clientVars, postVars, runVars>>

\* An exception leaves the with block: the executor is shut down with
\* wait=True, so the exception leaves review_files_parallel only when every
\* task has ended.
Unwind ==
    /\ mainpc = "unwind"
    /\ \A f \in Files : pc[f] = "done"
    /\ mainpc' = "raised"
    /\ UNCHANGED <<files_to_review, max_workers, submitted, pc, env, result,
                   future, progress_lock, files_completed, loaded, printed,
                   finished, waiter, collected, review_results, finish_order, requests,
                   clientVars, postVars, runVars>>

Next ==
    \/ Submit
    \/ AsCompleted
    \/ ReturnResults
    \/ Unwind
    \/ \E f \in Files : Start(f)
    \/ \E f \in Files : Review(f)
    \/ \E f \in Files : Acquire(f)
    \/ \E f \in Files : Load(f)
    \/ \E f \in Files : Store(f)
    \/ \E f \in Files : PrintProgress(f)
    \/ \E f \in Files : Return(f)
    \/ \E f \in Files : Collect(f)

Spec == Init /\ [][Next]_vars

\* Threads are scheduled and the calls a task makes come back.
FairSpec == Spec /\ WF_vars(Next)

(***************************************************************************)
(* The coordinator against a model service that may never answer, over     *)
(* files that may be blank.                                                *)
(***************************************************************************)
\* Up to MaxFiles code files, the last of which may be a blank one.
InitService ==
    /\ \E n \in 0..MaxFiles, workers \in 1..MaxWorkers :
          \E last \in {"good", "blank"} :
              CoordinatorStart(
                  DescriptorsOf([i \in 1..n |-> IF i = n THEN last ELSE "good"]),
                  workers)
    /\ ClientIdle
    /\ PostIdle
    /\ RunIdle

\* The request of task f (line 309) was sent and no answer ever comes:
\* the task stays in its worker thread. The file was read and is not blank,
\* or no request would have been made.
Hang(f) ==
    /\ pc[f] = "running"
    /\ ~StartsWith(files_to_review[f].relative_path, "blank/")
    /\ pc' = [pc EXCEPT ![f] = "hung"]
    /\ env' = [env EXCEPT ![f] = FileEnv(ReadOk, [raised |-> FALSE, pending |-> TRUE])]
    /\ requests' = [requests EXCEPT
                        ![f] = RequestsOfBody(files_to_review[f], env'[f])]
    /\ UNCHANGED <<files_to_review, max_workers, mainpc, submitted, result,
                   future, progress_lock, files_completed, loaded, printed,
                   finished, waiter, collected, review_results, finish_order,
                   clientVars, postVars, runVars>>

\* The descriptors have both keys, so the handler at line 496 cannot raise
\* and Unwind has no part.
NextService ==
    \/ Submit
    \/ AsCompleted
    \/ ReturnResults
    \/ \E f \in Files : Start(f)
    \/ \E f \in Files : Review(f)
    \/ \E f \in Files : Hang(f)
    \/ \E f \in Files : Acquire(f)
    \/ \E f \in Files : Load(f)
    \/ \E f \in Files : Store(f)
    \/ \E f \in Files : PrintProgress(f)
    \/ \E f \in Files : Return(f)
    \/ \E f \in Files : Collect(f)

SpecService == InitService /\ [][NextService]_vars

\* The threads are scheduled: while the calling thread can submit or some
\* task can take a step, one of them does, and a request that is answered
\* comes back. Nothing makes a hung request come back.
FairService ==
    /\ SpecService
    /\ WF_vars(\/ Submit
               \/ \E f \in Files : \/ Start(f) \/ Review(f) \/ Acquire(f) \/ Load(f)
                                    \/ Store(f) \/ PrintProgress(f) \/ Return(f))

(***************************************************************************)
(* The review client called on its own.                                    *)
(***************************************************************************)
InitClient ==
    /\ CoordinatorStart(<<>>, 1)
    /\ cl_pc = "call"
    /\ cl_args \in ClientInputs
    /\ cl_ret = EmptyDict
    /\ PostIdle
    /\ RunIdle

ClientCall ==
    /\ cl_pc = "call"
    /\ cl_ret' = _get_ai_code_review(cl_args.code, cl_args.start_line,
                                     cl_args.commit_info, cl_args.request)
    /\ cl_pc' = "ret"
    /\ UNCHANGED <<cl_args, coordVars, postVars, runVars>>

NextClient == ClientCall

SpecClient == InitClient /\ [][NextClient]_vars

(***************************************************************************)
(* The post-processor and the chunk splitter called on their own, next to  *)
(* the review client.                                                      *)
(***************************************************************************)
PostCallPending(call, inputs) ==
    /\ pp_call = call
    /\ pp_pc = "call"
    /\ pp_args \in inputs
    /\ pp_ret = EmptyDict

InitPost ==
    /\ CoordinatorStart(<<>>, 1)
    /\ RunIdle
    /\ \/ /\ cl_pc = "call"
          /\ cl_args \in ClientInputs
          /\ cl_ret = EmptyDict
          /\ PostIdle
       \/ /\ ClientIdle
          /\ \/ PostCallPending("_deduplicate_issues", DedupInputs)
             \/ PostCallPending("review_code", ReviewCodeInputs)
             \/ PostCallPending("split_code_into_chunks", ChunkInputs)

DedupCall ==
    /\ pp_call = "_deduplicate_issues"
    /\ pp_pc = "call"
    /\ pp_ret' = _deduplicate_issues(pp_args.issues)
    /\ pp_pc' = "ret"
    /\ UNCHANGED <<pp_call, pp_args, coordVars, clientVars, runVars>>

ReviewCodeCall ==
    /\ pp_call = "review_code"
    /\ pp_pc = "call"
    /\ pp_ret' = Ret(review_code(pp_args.code_content, pp_args.commit_info,
                                 pp_args.request))
    /\ pp_pc' = "ret"
    /\ UNCHANGED <<pp_call, pp_args, coordVars, clientVars, runVars>>

SplitCall ==
    /\ pp_call = "split_code_into_chunks"
    /\ pp_pc = "call"
    /\ pp_ret' = Ret(split_code_into_chunks(pp_args.code, pp_args.max_chunk_size))
    /\ pp_pc' = "ret"
    /\ UNCHANGED <<pp_call, pp_args, coordVars, clientVars, runVars>>

NextPost ==
    \/ ClientCall
    \/ DedupCall
    \/ ReviewCodeCall
    \/ SplitCall

SpecPost == InitPost /\ [][NextPost]_vars

(***************************************************************************)
(* A run of the program: main and review_repository.                       *)
(***************************************************************************)
\* max_workers of review_files_parallel when the caller gives none.
DefaultMaxWorkers == 3

\* What an environment variable can hold at startup: unset, empty, a value.
SettingValues == {NoneVal, "", "https://example.openai.azure.com"}

\* A test for an unset variable only.
NotSetOnlyNone(value) == value = NoneVal

\* `not value` on what os.getenv returned.
NotSet(value) == ~StrTrue(value)

\* AzureConfig.from_env
from_env(environ) ==
    IF NotSet(environ.AZURE_OPENAI_ENDPOINT)
    THEN Exc("ValueError", "AZURE_OPENAI_ENDPOINT environment variable is not set")
    ELSE IF NotSet(environ.AZURE_OPENAI_KEY)
    THEN Exc("ValueError", "AZURE_OPENAI_KEY environment variable is not set")
    ELSE IF NotSet(environ.AZURE_OPENAI_DEPLOYMENT)
    THEN Exc("ValueError", "AZURE_OPENAI_DEPLOYMENT environment variable is not set")
    ELSE Ret([endpoint |-> environ.AZURE_OPENAI_ENDPOINT,
              api_key |-> environ.AZURE_OPENAI_KEY,
              deployment |-> environ.AZURE_OPENAI_DEPLOYMENT])

\* The coordinator has not been called.
CoordinatorIdle ==
    /\ files_to_review = <<>>
    /\ max_workers = DefaultMaxWorkers
    /\ mainpc = "idle"
    /\ submitted = 0
    /\ pc = <<>>
    /\ env = <<>>
    /\ result = <<>>
    /\ future = <<>>
    /\ progress_lock = 0
    /\ files_completed = 0
    /\ loaded = <<>>
    /\ printed = <<>>
    /\ finished = {}
    /\ waiter = <<>>
    /\ collected = {}
    /\ review_results = <<>>
    /\ finish_order = <<>>
    /\ requests = <<>>

InitRun ==
    /\ run_pc = "config"
    /\ settings \in [AZURE_OPENAI_ENDPOINT : SettingValues,
                      AZURE_OPENAI_KEY : SettingValues,
                      AZURE_OPENAI_DEPLOYMENT : SettingValues]
    /\ temp_dir = NoneVal
    /\ dir_exists = FALSE
    /\ repo = NoneVal
    /\ code_files = <<>>
    /\ reports = <<>>
    /\ CoordinatorIdle
    /\ ClientIdle
    /\ PostIdle

\* main, lines 665-667 and the handler at 716-722.
LoadConfig ==
    /\ run_pc = "config"
    /\ IF from_env(settings).raised
       THEN /\ reports' = Append(reports, "Configuration Error: "
                                          \o from_env(settings).text)
            /\ run_pc' = "ended"
       ELSE /\ run_pc' = "inputs"
            /\ UNCHANGED reports
    /\ UNCHANGED <<settings, temp_dir, dir_exists, repo, code_files,
                   coordVars, clientVars, postVars>>

\* What the user types at the prompts of main.
UserInputs ==
    [choice : {"1", "2", "9"},
     repo_url : {"", "github.com/org/repo", GitHubUrl},
     username : {"", "dev"},
     password : {"", "token"}]

\* main, lines 675-714: the report main prints instead of starting the
\* review, "" when it prints none, NoneVal when review_repository is called.
Refusal(input) ==
    IF input.choice \notin {"1", "2", "3", "4"}
    THEN "Invalid repository type selection."
    ELSE IF input.repo_url = "" THEN ""
    ELSE IF ~(StartsWith(input.repo_url, "http://")
              \/ StartsWith(input.repo_url, "https://"))
    THEN "Please enter a valid repository URL"
    ELSE IF input.choice \in {"2", "4"}
            /\ (input.username = "" \/ input.password = "")
    THEN "Please provide username and personal access token for private repositories."
    ELSE NoneVal

AskInputs ==
    /\ run_pc = "inputs"
    /\ \E input \in UserInputs :
          IF Refusal(input) = NoneVal
          THEN /\ run_pc' = "clone"
               /\ UNCHANGED reports
          ELSE /\ run_pc' = "ended"
               /\ reports' = IF Refusal(input) = "" THEN reports
                             ELSE Append(reports, Refusal(input))
    /\ UNCHANGED <<settings, temp_dir, dir_exists, repo, code_files,
                   coordVars, clientVars, postVars>>

TempDir == "/tmp/tmpab12"

\* What shutil.rmtree can answer: the tree is removed, or (on a platform
\* that refuses to delete read-only files, with such files in the tree) it
\* raises and the directory stays.
RmtreeAnswers ==
    {Ret(NoneVal), Exc("PermissionError", "[WinError 5] Access is denied")}

\* GitHandler.cleanup (lines 190-196) for one answer of rmtree:
\* whether the directory exists afterwards and the lines printed.
cleanup(dir, exists, rmtree) ==
    IF dir = NoneVal \/ ~exists THEN [exists |-> exists, printed |-> <<>>]
    ELSE IF rmtree.raised
    THEN [exists |-> TRUE,
          printed |-> <<"Error cleaning up temporary directory: " \o rmtree.text>>]
    ELSE [exists |-> FALSE, printed |-> <<>>]

\* What mkdtemp and git answer to clone_repository.
CloneAnswers ==
    {[mkdtemp |-> Exc("OSError", "[Errno 28] No space left on device"),
      clone_from |-> Ret(NoneVal)],
     [mkdtemp |-> Ret(TempDir),
      clone_from |-> Exc("GitCommandError", "Cmd('git') failed due to: exit code(128)")],
     [mkdtemp |-> Ret(TempDir), clone_from |-> Ret("repo")]}

ProcessingError(text) == "Error processing repository: " \o text

\* review_repository, lines 565-569: GitHandler.clone_repository
\* (100-116) and, when it raised, the handler at 654-655.
CloneRepository ==
    /\ run_pc = "clone"
    /\ \E answer \in CloneAnswers, rmtree \in RmtreeAnswers :
          IF answer.mkdtemp.raised
          THEN /\ reports' = Append(reports, ProcessingError(
                                  "Failed to clone repository: " \o answer.mkdtemp.text))
               /\ run_pc' = "cleanup"
               /\ UNCHANGED <<temp_dir, dir_exists, repo>>
          ELSE IF answer.clone_from.raised
          THEN /\ temp_dir' = answer.mkdtemp.val
               /\ dir_exists' = cleanup(answer.mkdtemp.val, TRUE, rmtree).exists
               /\ reports' = reports
                             \o cleanup(answer.mkdtemp.val, TRUE, rmtree).printed
                             \o <<ProcessingError("Failed to clone repository: "
                                                  \o answer.clone_from.text)>>
               /\ run_pc' = "cleanup"
               /\ UNCHANGED repo
          ELSE /\ temp_dir' = answer.mkdtemp.val
               /\ dir_exists' = TRUE
               /\ repo' = answer.clone_from.val
               /\ run_pc' = "enumerate"
               /\ UNCHANGED reports
    /\ UNCHANGED <<settings, code_files, coordVars, clientVars, postVars>>

\* The code files of the clone, in the order os.walk meets them.
FilesOfClone(n) == [i \in 1..n |-> TempDir \o "/" \o PathNames[i]]

\* GitHandler.get_code_files (lines 163-188): the walk meets n code files;
\* stop = -1 when it ends normally, k >= 0 when it raises after k files
\* were appended. The files appended so far are returned either way.
get_code_files(n, stop) ==
    IF stop < 0 THEN [files |-> FilesOfClone(n), printed |-> <<>>]
    ELSE [files |-> FilesOfClone(stop),
          printed |-> <<"Error scanning directory: walk failed">>]

\* review_repository, lines 571-578.
FindCodeFiles ==
    /\ run_pc = "enumerate"
    /\ \E n \in 0..MaxFiles :
          \E stop \in -1..n :
             /\ code_files' = get_code_files(n, stop).files
             /\ IF get_code_files(n, stop).files = <<>>
                THEN /\ reports' = reports \o get_code_files(n, stop).printed
                                    \o <<"No code files found in the repository.">>
                     /\ run_pc' = "cleanup"
                ELSE /\ reports' = reports \o get_code_files(n, stop).printed
                     /\ run_pc' = "select"
    /\ UNCHANGED <<settings, temp_dir, dir_exists, repo, coordVars, clientVars,
                   postVars>>

\* str.strip()
RECURSIVE Strip(_)
Strip(s) ==
    IF Len(s) = 0 THEN s
    ELSE IF SubSeq(s, 1, 1) \in Whitespace THEN Strip(SubSeq(s, 2, Len(s)))
    ELSE IF SubSeq(s, Len(s), Len(s)) \in Whitespace
    THEN Strip(SubSeq(s, 1, Len(s) - 1))
    ELSE s

Digits == "0123456789"

IsDigits(s) ==
    /\ Len(s) > 0
    /\ \A i \in 1..Len(s) : Find(Digits, SubSeq(s, i, i)) > 0

RECURSIVE DigitsValue(_)
DigitsValue(s) ==
    IF Len(s) = 0 THEN 0
    ELSE 10 * DigitsValue(SubSeq(s, 1, Len(s) - 1))
         + Find(Digits, SubSeq(s, Len(s), Len(s))) - 1

\* int(idx.strip()) for a decimal number with an optional sign.
ParseInt(token) ==
    IF IsDigits(Strip(token)) THEN Ret(DigitsValue(Strip(token)))
    ELSE IF Len(Strip(token)) > 1 /\ SubSeq(Strip(token), 1, 1) = "-"
            /\ IsDigits(SubSeq(Strip(token), 2, Len(Strip(token))))
    THEN Ret(0 - DigitsValue(SubSeq(Strip(token), 2, Len(Strip(token)))))
    ELSE Exc("ValueError", "invalid literal for int() with base 10")

\* The descriptor built at lines 601-602 and 607-608 for a code file.
DescriptorOf(abs_path, repo_path) ==
    [relative_path |-> SubSeq(abs_path, Len(repo_path) + 2, Len(abs_path)),
     absolute_path |-> abs_path]

\* The list comprehension at 605-609 over the tokens of the selection: the
\* descriptors of the numbers in range, or the ValueError of the first
\* token that is not a number.
RECURSIVE PickFiles(_, _, _)
PickFiles(tokens, files, repo_path) ==
    IF tokens = <<>> THEN Ret(<<>>)
    ELSE IF ParseInt(Head(tokens)).raised THEN ParseInt(Head(tokens))
    ELSE IF PickFiles(Tail(tokens), files, repo_path).raised
    THEN PickFiles(Tail(tokens), files, repo_path)
    ELSE IF 0 < ParseInt(Head(tokens)).val /\ ParseInt(Head(tokens)).val <= Len(files)
    THEN Ret(<<DescriptorOf(files[ParseInt(Head(tokens)).val], repo_path)>>
             \o PickFiles(Tail(tokens), files, repo_path).val)
    ELSE PickFiles(Tail(tokens), files, repo_path)

\* Lines 597-612: the descriptors chosen by what the user typed.
SelectedFiles(typed, files, repo_path) ==
    IF Lower(Strip(typed)) = "all"
    THEN Ret([i \in 1..Len(files) |-> DescriptorOf(files[i], repo_path)])
    ELSE PickFiles(Split(Strip(typed), ","), files, repo_path)

\* What the selection prompt can give: a typed line, or end of input.
SelectionAnswers ==
    {Ret("all"), Ret(" 2, 1"), Ret("1"), Ret("9"), Ret("1,x"),
     Exc("EOFError", "EOF when reading a line")}

\* The call review_files_parallel(reviewer, files_to_review, git_handler)
\* at line 616: lines 428-432 with the default max_workers.
CallCoordinator(descriptors) ==
    /\ files_to_review' = descriptors
    /\ max_workers' = DefaultMaxWorkers
    /\ mainpc' = "submit"
    /\ submitted' = 0
    /\ pc' = [f \in 1..Len(descriptors) |-> "new"]
    /\ env' = [f \in 1..Len(descriptors) |-> EmptyDict]
    /\ result' = [f \in 1..Len(descriptors) |-> EmptyDict]
    /\ future' = [f \in 1..Len(descriptors) |-> EmptyDict]
    /\ progress_lock' = 0
    /\ files_completed' = 0
    /\ loaded' = [f \in 1..Len(descriptors) |-> 0]
    /\ printed' = <<>>
    /\ finished' = {}
    /\ waiter' = <<>>
    /\ collected' = {}
    /\ review_results' = <<>>
    /\ finish_order' = <<>>
    /\ requests' = [f \in 1..Len(descriptors) |-> 0]

\* The selection was read and parsed: the review starts, or the run goes
\* to the finally block with or without a report.
AfterSelection(chosen) ==
    IF chosen.raised
    THEN /\ reports' = Append(reports,
                 IF chosen.exc = "ValueError"
                 THEN "Invalid selection. Please enter valid file numbers."
                 ELSE ProcessingError(chosen.text))
         /\ run_pc' = "cleanup"
         /\ UNCHANGED coordVars
    ELSE IF chosen.val = <<>>
    THEN /\ run_pc' = "cleanup"
         /\ UNCHANGED <<reports, coordVars>>
    ELSE /\ reports' = Append(reports, "Starting parallel review")
         /\ run_pc' = "review"
         /\ CallCoordinator(chosen.val)

\* review_repository, lines 596-616.
SelectFiles ==
    /\ run_pc = "select"
    /\ \E typed \in SelectionAnswers :
          AfterSelection(IF typed.raised THEN typed
                         ELSE SelectedFiles(typed.val, code_files, temp_dir))
    /\ UNCHANGED <<settings, temp_dir, dir_exists, repo, code_files,
                   clientVars, postVars>>

\* display_review_results (lines 511-516) looks every issue up by its
\* type: a type that is not one of IssueType's raises KeyError.
Displayable(results) ==
    \A i \in 1..Len(results) :
        HasKey(results[i], "issues") =>
            \A k \in 1..Len(results[i].issues) :
                results[i].issues[k].type \in IssueTypeDictStrings

\* review_repository, lines 618-652, once review_files_parallel returned.
ShowResults ==
    /\ run_pc = "review"
    /\ mainpc = "returned"
    /\ reports' = Append(reports,
                         IF Displayable(review_results)
                         THEN "Repository review completed!"
                         ELSE ProcessingError("KeyError"))
    /\ run_pc' = "cleanup"
    /\ UNCHANGED <<settings, temp_dir, dir_exists, repo, code_files,
                   coordVars, clientVars, postVars>>

\* The finally block of review_repository (lines 657-658).
Cleanup ==
    /\ run_pc = "cleanup"
    /\ \E rmtree \in RmtreeAnswers :
          /\ dir_exists' = cleanup(temp_dir, dir_exists, rmtree).exists
          /\ reports' = reports \o cleanup(temp_dir, dir_exists, rmtree).printed
    /\ run_pc' = "ended"
    /\ UNCHANGED <<settings, temp_dir, repo, code_files, coordVars, clientVars,
                   postVars>>

\* The descriptors review_repository builds always carry both keys, so the
\* handler at line 496 cannot raise and Unwind has no part in a run.
NextRun ==
    \/ LoadConfig
    \/ AskInputs
    \/ CloneRepository
    \/ FindCodeFiles
    \/ SelectFiles
    \/ ShowResults
    \/ Cleanup
    \/ Submit
    \/ AsCompleted
    \/ ReturnResults
    \/ \E f \in Files : Start(f)
    \/ \E f \in Files : Review(f)
    \/ \E f \in Files : Acquire(f)
    \/ \E f \in Files : Load(f)
    \/ \E f \in Files : Store(f)
    \/ \E f \in Files : PrintProgress(f)
    \/ \E f \in Files : Return(f)
    \/ \E f \in Files : Collect(f)

SpecRun == InitRun /\ [][NextRun]_vars

(***************************************************************************)
(* Properties of the coordinator.                                          *)
(***************************************************************************)
AllTasksDone == \A f \in Files : pc[f] = "done"

\* The task of f ended by returning a record that is not error-flagged.
Succeeded(f) ==
    /\ pc[f] = "done"
    /\ ~future[f].raised
    /\ ~HasKey(future[f].val, "error")

\* The task of f failed before its progress update.
TaskFailed(f) == ReviewBody(files_to_review[f], env[f]).raised

IsErrorRecord(r) ==
    /\ {"file", "error", "issues_count", "issues_by_type"} \subseteq DOMAIN r
    /\ r.issues_count = 0
    /\ CountedTypes \subseteq DOMAIN r.issues_by_type
    /\ \A t \in CountedTypes : r.issues_by_type[t] = 0

RecordsOf(f) ==
    {i \in 1..Len(review_results) :
        /\ HasKey(files_to_review[f], "relative_path")
        /\ review_results[i].file = files_to_review[f].relative_path}

\* C1: when review_files_parallel returns, the returned list has exactly
\* one record per submitted descriptor, whatever tasks failed.
C1_OneRecordPerDescriptor ==
    mainpc = "returned" =>
        /\ Len(review_results) = Len(files_to_review)
        /\ \A f \in Files : Cardinality(RecordsOf(f)) = 1

\* C1 witness: the call returned for two files whose tasks both failed.
C1_Witness ==
    /\ mainpc = "returned"
    /\ total_files = 2
    /\ Len(review_results) = 2
    /\ \A i \in 1..Len(review_results) : HasKey(review_results[i], "error")

\* C2: a task whose file read or review pipeline fails leaves an error
\* record with the error text, issues_count 0 and a zero count for every
\* category, and every other task returns the record its own file
\* determines, whatever happened to its siblings.
C2_FailedTaskYieldsErrorRecord ==
    \A f \in Files :
        (pc[f] = "done" /\ HasKey(files_to_review[f], "relative_path")) =>
            IF TaskFailed(f)
            THEN /\ ~future[f].raised
                 /\ IsErrorRecord(future[f].val)
                 /\ future[f].val.error = ReviewBody(files_to_review[f], env[f]).text
                 /\ future[f].val.file = files_to_review[f].relative_path
            ELSE future[f] = Ret(ReviewBody(files_to_review[f], env[f]).val)

\* C2 witness: of two files one could not be opened and has its error
\* record, the other was reviewed and has its one issue.
C2_Witness ==
    \E f, g \in Files :
        /\ pc[f] = "done" /\ pc[g] = "done"
        /\ HasKey(files_to_review[f], "relative_path")
        /\ TaskFailed(f)
        /\ ReviewBody(files_to_review[f], env[f]).exc = "FileNotFoundError"
        /\ Succeeded(g)
        /\ future[g].val.issues_count = 1

\* C3: the completed-file count never exceeds the number of files and is
\* exactly that number, with one progress line per file, when the call
\* returns.
C3_ProgressReachesTotal ==
    /\ files_completed <= total_files
    /\ (mainpc = "returned" /\ total_files >= 1) =>
           /\ files_completed = total_files
           /\ Len(printed) = total_files

\* Tasks inside the with progress_lock block.
InCriticalSection == {f \in Files : pc[f] \in {"load", "store", "print"}}

\* Tasks that have executed files_completed += 1.
Incremented == {f \in Files : pc[f] \in {"print", "return"} \/ Succeeded(f)}

\* Tasks that have left the progress step.
PassedProgress == {f \in Files : pc[f] = "return" \/ Succeeded(f)}

\* The percentage of a progress line, in tenths of a percent.
PercentTenths(completed) == (completed * 1000) \div total_files

\* C4: the increment and the print are one critical section: no increment
\* is lost, the printed counts are 1, 2, 3, ... and the printed percentage
\* never decreases.
C4_ProgressIsOneCriticalSection ==
    /\ Cardinality(InCriticalSection) <= 1
    /\ files_completed = Cardinality(Incremented)
    /\ Len(printed) = Cardinality(PassedProgress)
    /\ \A i \in 1..Len(printed) : printed[i] = i
    /\ \A i, j \in 1..Len(printed) :
           i < j => PercentTenths(printed[i]) <= PercentTenths(printed[j])

\* C4 witness: one task waits for the lock while another is between the
\* read and the write of the counter, after which both lines are printed.
C4_Witness ==
    \E f, g \in Files :
        /\ pc[f] = "progress"
        /\ pc[g] = "store"
        /\ progress_lock = g

\* C5: at every moment at most max_workers tasks are executing.
C5_AtMostMaxWorkersExecuting == Cardinality(Executing) <= max_workers

\* C5 witness: every worker is busy and a submitted task is waiting.
C5_Witness ==
    /\ Cardinality(Executing) = max_workers
    /\ \E f \in Files : pc[f] = "queued"

ExpectedStructure(json) ==
    /\ json.t = "object"
    /\ HasKey(json.d, "issues") =>
           /\ json.d.issues.t = "list"
           /\ \A i \in 1..Len(json.d.issues.items) :
                  json.d.issues.items[i].t = "object"

ClientReturned == cl_pc = "ret"

ReturnedOneIssue ==
    /\ ~cl_ret.raised
    /\ cl_ret.val.t = "list"
    /\ Len(cl_ret.val.items) = 1

\* C8: a response that is not parseable as the expected structure yields
\* exactly one Best Practice issue at start_line, with the raw text as the
\* suggestion and the reviewed code as original_code_content.
C8_MalformedGivesBestPractice ==
    (ClientReturned /\ ~cl_args.request.raised
        /\ cl_args.request.val.content # NoneVal
        /\ ~ExpectedStructure(cl_args.request.val.json)) =>
        /\ ReturnedOneIssue
        /\ cl_ret.val.items[1].type = BEST_PRACTICE
        /\ cl_ret.val.items[1].line = cl_args.start_line
        /\ cl_ret.val.items[1].suggestion.text = cl_args.request.val.content
        /\ HasKey(cl_ret.val.items[1], "original_code_content")
        /\ cl_ret.val.items[1].original_code_content = cl_args.code

\* C9: a failed model request yields, without raising, exactly one Critical
\* issue at start_line whose message contains the error text and whose
\* suggestion is 'Manual review recommended'.
C9_RequestFailureGivesCritical ==
    (ClientReturned /\ cl_args.request.raised) =>
        /\ ReturnedOneIssue
        /\ cl_ret.val.items[1].type = CRITICAL
        /\ Contains(cl_ret.val.items[1].message, cl_args.request.text)
        /\ cl_ret.val.items[1].line = cl_args.start_line
        /\ cl_ret.val.items[1].suggestion.text = "Manual review recommended"

\* C9 witness: the request timed out for a review starting at line 2.
C9_Witness ==
    /\ ClientReturned
    /\ cl_args.request.raised
    /\ cl_args.request.exc = "APITimeoutError"
    /\ cl_args.start_line = 2
    /\ cl_ret.val.items[1].line = 2

\* A call in which something failed: the request, the parsing, or the
\* processing of the parsed entries.
FailureMode ==
    \/ cl_args.request.raised
    \/ ~ExpectedStructure(cl_args.request.val.json)
    \/ ParseIssues(cl_args.request.val, cl_args.start_line,
                   cl_args.commit_info).raised

WellFormedIssue(issue) ==
    {"type", "message", "line", "suggestion"} \subseteq DOMAIN issue

\* C10: the client always returns a list and never raises, and in every
\* failure mode the list is a single issue with type, message, line and
\* suggestion.
C10_AlwaysAListSingleOnFailure ==
    ClientReturned =>
        /\ ~cl_ret.raised
        /\ cl_ret.val.t = "list"
        /\ FailureMode =>
               /\ Len(cl_ret.val.items) = 1
               /\ WellFormedIssue(cl_ret.val.items[1])

(***************************************************************************)
(* Properties of the issue post-processor.                                 *)
(***************************************************************************)
\* The entries of a parsed response that report a line number.
EntriesWithLine(request) ==
    IF /\ ~request.raised
       /\ request.val.json.t = "object"
       /\ HasKey(request.val.json.d, "issues")
       /\ request.val.json.d.issues.t = "list"
       /\ \A i \in 1..Len(request.val.json.d.issues.items) :
              /\ request.val.json.d.issues.items[i].t = "object"
              /\ HasKey(request.val.json.d.issues.items[i].d, "line")
              /\ request.val.json.d.issues.items[i].d.line.t = "int"
    THEN request.val.json.d.issues.items
    ELSE <<>>

\* Entry j of the response is what issue was made from.
MadeFrom(issue, entries, j) ==
    /\ HasKey(issue, "code") /\ HasKey(entries[j].d, "code")
    /\ issue.code = entries[j].d.code
    /\ issue.message = entries[j].d.message

\* Position in the response of the entry an issue was made from.
EntryPos(issue, entries) ==
    CHOOSE j \in 1..Len(entries) : MadeFrom(issue, entries, j)

DedupReturned == pp_call = "_deduplicate_issues" /\ pp_pc = "ret"

ReviewCodeReturned == pp_call = "review_code" /\ pp_pc = "ret"

\* The deduplication key of the claims: the line and the first 100
\* characters of the message.
KeyOfIssue(issue) ==
    <<issue.line,
      SubSeq(issue.message, 1, IF Len(issue.message) < DedupPrefixLen
                               THEN Len(issue.message) ELSE DedupPrefixLen)>>

\* C11: an issue the model reports at line k for text starting at line s
\* is returned by the client at line k + s - 1, and review_code and the
\* result record keep that line: the offset is applied exactly once.
C11_LineShiftAppliedOnce ==
    /\ (ClientReturned /\ ~cl_ret.raised /\ cl_ret.val.t = "list") =>
           \A i \in 1..Len(cl_ret.val.items) :
               \A j \in 1..Len(EntriesWithLine(cl_args.request)) :
                   MadeFrom(cl_ret.val.items[i], EntriesWithLine(cl_args.request), j) =>
                       cl_ret.val.items[i].line =
                           EntriesWithLine(cl_args.request)[j].d.line.v
                           + cl_args.start_line - 1
    /\ ReviewCodeReturned =>
           /\ \A i \in 1..Len(pp_ret.val) :
                  \A j \in 1..Len(EntriesWithLine(pp_args.request)) :
                      MadeFrom(pp_ret.val[i], EntriesWithLine(pp_args.request), j) =>
                          pp_ret.val[i].line =
                              EntriesWithLine(pp_args.request)[j].d.line.v
           /\ (\A i \in 1..Len(pp_ret.val) : HasKey(pp_ret.val[i], "type")) =>
                  BuildResult("a.py", pp_args.commit_info, pp_ret.val,
                              pp_args.code_content).val.issues = pp_ret.val

\* C11 witness: issues reported at lines 3 and 1 of a text that starts at
\* line 2 are returned at lines 4 and 2.
C11_Witness ==
    /\ ClientReturned
    /\ cl_args.start_line = 2
    /\ cl_args.request = Ret(RespTwo)
    /\ ~cl_ret.raised
    /\ Len(cl_ret.val.items) = 2
    /\ cl_ret.val.items[1].line = 4
    /\ cl_ret.val.items[2].line = 2

\* C12: no two issues of a list returned by review_code have the same
\* key (line, first 100 characters of the message).
C12_NoTwoIssuesShareAKey ==
    ReviewCodeReturned =>
        \A i, j \in 1..Len(pp_ret.val) :
            i # j => KeyOfIssue(pp_ret.val[i]) # KeyOfIssue(pp_ret.val[j])

\* C12 witness: of three reported issues two had the same key, and two
\* issues were returned.
C12_Witness ==
    /\ ReviewCodeReturned
    /\ Len(EntriesWithLine(pp_args.request)) = 3
    /\ Len(pp_ret.val) = 2
    /\ \A i \in 1..2 : pp_ret.val[i].code \in {Snippets[1], Snippets[2], Snippets[3]}

\* Positions of the input whose key no earlier issue has.
FirstOfKey(issues) ==
    {i \in 1..Len(issues) :
        \A j \in 1..(i - 1) : KeyOfIssue(issues[j]) # KeyOfIssue(issues[i])}

\* Position of an issue in the input of _deduplicate_issues.
InputPos(issue) == CHOOSE i \in 1..Len(pp_args.issues) : pp_args.issues[i] = issue

AllMessagesText(issues) == \A i \in 1..Len(issues) : issues[i].message # NoneVal

PairAtOneLine(issues, first, second) ==
    /\ Len(issues) = 2
    /\ issues[1].line = issues[2].line
    /\ issues[1].message = first
    /\ issues[2].message = second

\* C14 as stated: of "Unused variable x" and "Unused variable x in loop"
\* at the same line only the first is retained.
C14_ShortAndLoopKeepsFirstOnly ==
    (DedupReturned /\ PairAtOneLine(pp_args.issues, MsgShort, MsgLoop)) =>
        pp_ret = Ret(<<pp_args.issues[1]>>)

\* C14 amended: the two messages differ within their first 100
\* characters, so both issues are retained, in arrival order.
C14_ShortAndLoopBothKept ==
    (DedupReturned /\ PairAtOneLine(pp_args.issues, MsgShort, MsgLoop)) =>
        pp_ret = Ret(pp_args.issues)

\* C14 witness: deduplication has returned for that pair.
C14_Witness ==
    /\ DedupReturned
    /\ PairAtOneLine(pp_args.issues, MsgShort, MsgLoop)
    /\ Len(pp_ret.val) = 2

\* C15 as stated: two issues at the same line whose messages agree on the
\* first 100 characters and differ after them are both in the output.
C15_LongMessagesBothKept ==
    (DedupReturned /\ PairAtOneLine(pp_args.issues, MsgLongA, MsgLongB)) =>
        pp_ret = Ret(pp_args.issues)

\* C15 amended: such issues have the same key, so only the first is in
\* the output.
C15_LongMessagesKeepFirstOnly ==
    (DedupReturned /\ PairAtOneLine(pp_args.issues, MsgLongA, MsgLongB)) =>
        pp_ret = Ret(<<pp_args.issues[1]>>)

\* C15 witness: deduplication has returned for two messages longer than
\* 100 characters that differ only after the first 100.
C15_Witness ==
    /\ DedupReturned
    /\ PairAtOneLine(pp_args.issues, MsgLongA, MsgLongB)
    /\ Len(MsgLongA) > DedupPrefixLen
    /\ SubSeq(MsgLongA, 1, DedupPrefixLen) = SubSeq(MsgLongB, 1, DedupPrefixLen)
    /\ MsgLongA # MsgLongB
    /\ Len(pp_ret.val) = 1

\* C16: the list review_code returns is in non-decreasing line order, and
\* issues of the same line are in the order the response had them.
C16_SortedByLineStable ==
    ReviewCodeReturned =>
        \A k, l \in 1..Len(pp_ret.val) :
            k < l =>
                /\ pp_ret.val[k].line <= pp_ret.val[l].line
                /\ pp_ret.val[k].line = pp_ret.val[l].line =>
                       EntryPos(pp_ret.val[k], EntriesWithLine(pp_args.request))
                       < EntryPos(pp_ret.val[l], EntriesWithLine(pp_args.request))

\* C16 witness: the response had lines 2, 1, 2; the issue of line 1 comes
\* first and the two issues of line 2 keep their order.
C16_Witness ==
    /\ ReviewCodeReturned
    /\ Len(pp_ret.val) = 3
    /\ pp_ret.val[1].line = 1 /\ pp_ret.val[1].code = Snippets[2]
    /\ pp_ret.val[2].line = 2 /\ pp_ret.val[2].code = Snippets[1]
    /\ pp_ret.val[3].line = 2 /\ pp_ret.val[3].code = Snippets[3]

\* C17: every issue of every list review_code returns carries
\* original_code_content, the reviewed file text.
C17_EveryIssueCarriesOriginalCode ==
    ReviewCodeReturned =>
        \A i \in 1..Len(pp_ret.val) :
            /\ HasKey(pp_ret.val[i], "original_code_content")
            /\ pp_ret.val[i].original_code_content = pp_args.code_content

(***************************************************************************)
(* Properties of a run.                                                    *)
(***************************************************************************)
RunEnded == run_pc = "ended"

\* C18: once the run is over the temporary clone directory no longer
\* exists, on every path, read-only files in the clone included.
C18_CloneDirRemovedAtEnd == RunEnded => ~dir_exists

HasReport(prefix) ==
    \E i \in 1..Len(reports) : StartsWith(reports[i], prefix)

CloneFailed == HasReport(ProcessingError("Failed to clone repository"))

ScanFailed == HasReport("Error scanning directory")

\* No task was handed to the pool and no request was sent to the model.
NoReviewStarted ==
    /\ submitted = 0
    /\ \A f \in Files : pc[f] = "new" /\ env[f] = EmptyDict

\* C19: when cloning or enumerating the code files failed, the failure is
\* reported and the run ends without a review: no task is submitted and
\* no request is sent.
C19_AccessFailureStartsNoReview ==
    (CloneFailed \/ ScanFailed) =>
        /\ NoReviewStarted
        /\ run_pc \in {"select", "cleanup", "ended"}

SettingMissing ==
    \E name \in DOMAIN settings : settings[name] \in {NoneVal, ""}

\* C20: with a required setting missing or empty the run ends with one
\* configuration-error report and nothing else is executed: no clone, no
\* task, no request.
C20_MissingSettingEndsRun ==
    SettingMissing =>
        /\ run_pc \in {"config", "ended"}
        /\ run_pc = "config" => reports = <<>>
        /\ RunEnded =>
               /\ Len(reports) = 1
               /\ StartsWith(reports[1], "Configuration Error: ")
        /\ temp_dir = NoneVal /\ ~dir_exists /\ repo = NoneVal
        /\ mainpc = "idle"
        /\ NoReviewStarted

\* C20 witness: the run ended on an empty API key with its one report.
C20_Witness ==
    /\ RunEnded
    /\ settings.AZURE_OPENAI_ENDPOINT \notin {NoneVal, ""}
    /\ settings.AZURE_OPENAI_KEY = ""
    /\ reports = <<"Configuration Error: AZURE_OPENAI_KEY environment variable is not set">>

(***************************************************************************)
(* Properties of the commit and pull-request correlation.                  *)
(***************************************************************************)
\* The response parsed into an array of issues the client could process.
ParsedIssues(request) ==
    /\ ~request.raised
    /\ ExpectedStructure(request.val.json)
    /\ HasKey(request.val.json.d, "issues")
    /\ \A i \in 1..Len(request.val.json.d.issues.items) :
           HasKey(request.val.json.d.issues.items[i].d, "line") =>
               request.val.json.d.issues.items[i].d.line.t = "int"

\* Repository URLs by provider: GitHub, Azure DevOps in its two URL styles.
GitHubRepos ==
    {"https://github.com/org/repo", "https://github.com/org/repo.git"}

GitHubPagesRepos == {"https://github.com/org/org.github.io"}

AzureDevOpsRepos ==
    {"https://dev.azure.com/org/project/_git/repo",
     "https://org.visualstudio.com/project/_git/repo"}

KnownRepos ==
    GitHubRepos \cup GitHubPagesRepos \cup AzureDevOpsRepos
        \cup {"https://gitlab.com/org/repo"}

\* The URL of pull request `number` of the repository at repo_url.
PrUrlOf(repo_url, number) ==
    IF repo_url \in GitHubRepos
    THEN "https://github.com/org/repo/pull/" \o number
    ELSE IF repo_url \in GitHubPagesRepos
    THEN "https://github.com/org/org.github.io/pull/" \o number
    ELSE IF repo_url \in AzureDevOpsRepos
    THEN "https://dev.azure.com/org/project/_git/pullrequest/" \o number
    ELSE NoneVal

HasPrNumber(commit_info) ==
    DictTrue(commit_info) /\ StrTrue(commit_info.pr_number)

\* C21: every parsed issue carries the commit info when there is one, and
\* a PR link exactly when the commit info has a pull-request number; the
\* link's URL is the GitHub pull URL of the repository, the Azure DevOps
\* pullrequest URL of the organisation and project (for either Azure DevOps
\* URL style), and no URL for an unknown provider.
C21_PrLinkFollowsProvider ==
    (/\ ClientReturned
     /\ ParsedIssues(cl_args.request)
     /\ DictTrue(cl_args.commit_info) => cl_args.commit_info.repo_url \in KnownRepos) =>
        /\ ~cl_ret.raised
        /\ cl_ret.val.t = "list"
        /\ Len(cl_ret.val.items) = Len(cl_args.request.val.json.d.issues.items)
        /\ \A i \in 1..Len(cl_ret.val.items) :
               /\ DictTrue(cl_args.commit_info) =>
                      /\ HasKey(cl_ret.val.items[i], "commit_info")
                      /\ cl_ret.val.items[i].commit_info = cl_args.commit_info
               /\ HasKey(cl_ret.val.items[i], "pr_info") <=> HasPrNumber(cl_args.commit_info)
               /\ HasKey(cl_ret.val.items[i], "pr_info") =>
                      /\ cl_ret.val.items[i].pr_info.number = cl_args.commit_info.pr_number
                      /\ cl_ret.val.items[i].pr_info.url =
                             PrUrlOf(cl_args.commit_info.repo_url,
                                     cl_args.commit_info.pr_number)

(***************************************************************************)
(* Properties of the chunk splitter.                                       *)
(***************************************************************************)
SplitReturned == pp_call = "split_code_into_chunks" /\ pp_pc = "ret"

\* The texts of the chunks, in order.
ChunkTexts(chunks) == [k \in 1..Len(chunks) |-> chunks[k][1]]

\* Number of lines of the chunks before chunk k.
RECURSIVE LinesBefore(_, _)
LinesBefore(chunks, k) ==
    IF k = 1 THEN 0
    ELSE LinesBefore(chunks, k - 1) + Len(Split(chunks[k - 1][1], "\n"))

\* C22: for every text and every max_chunk_size >= 1 the chunks of
\* split_code_into_chunks are runs of whole consecutive lines of the text,
\* joined with newlines they give the text back, and each chunk's start
\* line is 1 plus the number of lines of the chunks before it.
C22_ChunksLoseAndSplitNothing ==
    SplitReturned =>
        /\ Join(ChunkTexts(pp_ret.val), "\n") = pp_args.code
        /\ \A k \in 1..Len(pp_ret.val) :
               /\ pp_ret.val[k][2] = 1 + LinesBefore(pp_ret.val, k)
               /\ Split(pp_ret.val[k][1], "\n") =
                      SubSeq(Split(pp_args.code, "\n"), pp_ret.val[k][2],
                             pp_ret.val[k][2] + Len(Split(pp_ret.val[k][1], "\n")) - 1)

\* C22 witness: three lines, of which the first two fill a chunk of size
\* 2, come back as a two-line chunk starting at line 1 and a chunk
\* starting at line 3.
C22_Witness ==
    /\ SplitReturned
    /\ pp_args.code = "a\nb\nab"
    /\ pp_args.max_chunk_size = 2
    /\ pp_ret.val = <<<<"a\nb", 1>>, <<"ab", 3>>>>

(***************************************************************************)
(* Properties of the order of the results.                                 *)
(***************************************************************************)
\* The files whose record is in review_results.
Recorded == {f \in Files : RecordsOf(f) # {}}

RecordPos(f) == CHOOSE i \in RecordsOf(f) : TRUE

\* Position of task f, or of the call of as_completed (0), in the order
\* of events.
FinishPos(f) == CHOOSE i \in 1..Len(finish_order) : finish_order[i] = f

FinishedBefore(a, b) == FinishPos(a) < FinishPos(b)

\* The future of b was set after as_completed was called.
FinishedWhileCollecting(b) == FinishedBefore(0, b)

\* C23 as stated: the records are in the list in the order in which their
\* tasks finished, for every two files, whenever the tasks finished.
C23_RecordsInCompletionOrder ==
    \A a, b \in Recorded :
        FinishedBefore(a, b) => RecordPos(a) < RecordPos(b)

\* C23: the records are in the list in the order in which as_completed
\* yields the tasks, not in submission order: the record of a task that
\* finished after the collection loop began comes after the record of
\* every task that finished before it; tasks that finished before the loop
\* began (while tasks were still submitted) come first, in any order.
C23_CompletionOrderOnceCollecting ==
    \A a, b \in Recorded :
        (FinishedBefore(a, b) /\ FinishedWhileCollecting(b)) =>
            RecordPos(a) < RecordPos(b)

\* C23 witness: the second file finished before the collection loop began
\* and the first one after that; the list returned holds the record of
\* the second file and then that of the first.
C23_Witness ==
    /\ mainpc = "returned"
    /\ finish_order = <<2, 0, 1>>
    /\ Len(review_results) = 2
    /\ review_results[1].file = "b.py"
    /\ review_results[2].file = "a.py"

(***************************************************************************)
(* Properties of a run in which a request never comes back.                *)
(***************************************************************************)
Hung == {f \in Files : pc[f] = "hung"}

\* With two workers or more and no more than one hung request, every
\* descriptor was submitted and every task but the hung one is done.
OnlyTheHungTaskIsLeft ==
    (max_workers >= 2 /\ Cardinality(Hung) <= 1) =>
        /\ submitted = total_files
        /\ \A g \in Files : pc[g] \in {"done", "hung"}

\* C24: with max_workers >= 2 a request that hangs forever blocks the
\* worker of its own task only: under fair scheduling every descriptor is
\* submitted and every other file's task is started and runs to
\* completion.
C24_HungCallBlocksOnlyItsWorker == <>OnlyTheHungTaskIsLeft

\* C24 witness: of two files reviewed by two workers the request of the
\* first hangs, and the task of the second has run to completion.
C24_Witness ==
    /\ max_workers = 2
    /\ total_files = 2
    /\ pc[1] = "hung"
    /\ pc[2] = "done"
    /\ ~future[2].raised

(***************************************************************************)
(* Properties of the result record of one file.                            *)
(***************************************************************************)
\* The task of f ran its body on a file it could read.
ReadText(f) ==
    /\ pc[f] \notin {"new", "queued", "running"}
    /\ env[f] # EmptyDict
    /\ ~ReadFile(env[f]).raised

\* The entries of the response to the request of f.
EntriesOf(f) == env[f].request.val.json.d.issues.items

\* The keys (line, message) of entries whose lines are given and whose
\* messages are shorter than the key's prefix.
EntryKeys(entries) ==
    {<<entries[i].d.line.v, entries[i].d.message>> : i \in 1..Len(entries)}

\* C25: for a file whose response parses into an issues array the record
\* is not error-flagged, holds exactly the deduplicated parsed issues in
\* line order, and counts them in issues_count, whatever fields the
\* entries carry or omit.
C25_ParsedIssuesGiveCleanRecord ==
    \A f \in Files :
        (/\ pc[f] = "done"
         /\ ReadText(f)
         /\ ~Blank(ReadFile(env[f]).val)
         /\ "pending" \notin DOMAIN env[f].request
         /\ ParsedIssues(env[f].request)) =>
            /\ Succeeded(f)
            /\ future[f].val.issues_count = Len(future[f].val.issues)
            /\ {<<future[f].val.issues[i].line, future[f].val.issues[i].message>> :
                    i \in 1..Len(future[f].val.issues)} = EntryKeys(EntriesOf(f))
            /\ Len(future[f].val.issues) = Cardinality(EntryKeys(EntriesOf(f)))
            /\ \A i, j \in 1..Len(future[f].val.issues) :
                   i < j => future[f].val.issues[i].line <= future[f].val.issues[j].line

====
